---- MODULE Spec2Model ----
(***************************************************************************)
(* Model of the Google AI key checker                                      *)
(* (src/shared/key-management/google-ai/checker.ts) driven by the generic  *)
(* checker scheduler (key-checker-base, modelled from spec.md section 4.1  *)
(* and 5) over a pool of key records patched through update(hash, patch)   *)
(* (provider.ts, modelled from spec.md section 6).                         *)
(*                                                                         *)
(* Times are milliseconds, as Date.now() gives them.  Strings are          *)
(* sequences of text fragments; a fragment is the unit of matching.        *)
(*                                                                         *)
(* The second half models the streaming transcoder googleAIToOpenAI        *)
(* (src/unnamed/part_000) fed by the callers of two concurrent streams;    *)
(* its behaviours are those of SpecT.                                      *)
(***************************************************************************)
EXTENDS Integers, Sequences, FiniteSets, TLC

VARIABLES
    keys,        \* the pool: hash -> key record
    now,         \* Date.now()
    pc,          \* scheduler position: "idle", "listing", "generating", "done"
    cur,         \* hash of the key whose check is in flight (0: none yet)
    lastEnd,     \* time the latest check and its handling completed (-1: none yet)
    lastStart,   \* start time of the latest check (-1: none yet)
    nChecks,     \* number of checks started
    updates,     \* the patches the current check has passed to updateKey, in order
    logs,        \* the log levels the current check has written, in order
    lastError,   \* the failure handed to handleAxiosError by the current check
    outcome,     \* "none", "success" or "failed" for the current check
    discovered,  \* the family list getProvisionedModels returned in this check
    errUpdates,  \* the patches handleAxiosError has passed to updateKey in this check
    gap,         \* time between the starts of this check and the previous one (-1: first)
    streams,     \* the transcoder's callers: stream -> its frames and fallback id/model
    fed,         \* stream -> number of frames its caller has fed (the frame index)
    out,         \* stream -> the results the transcoder returned, in order
    aborted,     \* stream -> an exception reached its forwarding loop
    tnow         \* Date.now() of the transcoder's calls

cvars == <<keys, now, pc, cur, lastEnd, lastStart, nChecks, updates, logs, lastError,
           outcome, discovered, errUpdates, gap>>

tvars == <<streams, fed, out, aborted, tnow>>

vars == <<cvars, tvars>>

-----------------------------------------------------------------------------
(* Bounds of the model *)

MaxChecks == 2

\* frames the caller of the first stream feeds to the transcoder
MaxFrames == 2

Hashes == {1, 2}

-----------------------------------------------------------------------------
(* Program constants *)

MIN_CHECK_INTERVAL == 3 * 1000
KEY_CHECK_PERIOD == 6 * 60 * 60 * 1000

\* constructor: the options handed to the generic scheduler
keyCheckPeriod_threeHours == 3 * 60 * 60 * 1000
keyCheckPeriod == KEY_CHECK_PERIOD

minCheckInterval_none == 0 * 1000
minCheckInterval == MIN_CHECK_INTERVAL

-----------------------------------------------------------------------------
(* Strings as sequences of fragments *)

Max(a, b) == IF a >= b THEN a ELSE b

\* s contains p as a contiguous run of fragments (String.prototype.includes)
Contains(s, p) ==
    \E i \in 0..(Len(s) - Len(p)) :
        \A j \in 1..Len(p) : s[i + j] = p[j]

\* Letter-case folding of a fragment (the fragments the model uses)
LowerFrag(f) ==
    CASE f = "API key not valid" -> "api key not valid"
      [] f = "API KEY EXPIRED" -> "api key expired"
      [] f = "API key expired" -> "api key expired"
      [] f = "pass a valid API" -> "pass a valid api"
      [] f = "Please enable billing" -> "please enable billing"
      [] f = "GenerateContentRequestsPerMinutePerProjectPerRegion"
             -> "generatecontentrequestsperminuteperprojectperregion"
      [] OTHER -> f

Lower(s) == [i \in 1..Len(s) |-> LowerFrag(s[i])]

\* A regular expression literal /source/flags
Re(source, flags) == [source |-> source, flags |-> flags]

\* RegExp.prototype.toString: "/" + source + "/" + flags
RegExpToString(re) == <<"/">> \o re.source \o <<"/">> \o re.flags

\* Array.prototype.join(sep): each element converted by toString
RECURSIVE Join(_, _)
Join(res, sep) ==
    IF res = <<>> THEN <<>>
    ELSE IF Len(res) = 1 THEN RegExpToString(res[1])
    ELSE RegExpToString(res[1]) \o <<sep>> \o Join(Tail(res), sep)

\* The alternatives of a pattern string: the runs between "|" fragments
RECURSIVE Alternatives(_, _)
Alternatives(pat, acc) ==
    IF pat = <<>> THEN {acc}
    ELSE IF Head(pat) = "|" THEN {acc} \cup Alternatives(Tail(pat), <<>>)
    ELSE Alternatives(Tail(pat), Append(acc, Head(pat)))

\* String.prototype.match(pattern) with a string pattern: the pattern is
\* compiled by new RegExp(pattern), without flags, so every alternative is
\* matched as written and case-sensitively.  TRUE iff match returns non-null.
StringMatch(text, pat) ==
    \E alt \in Alternatives(pat, <<>>) : Contains(text, alt)

\* What a regular expression literal itself matches (RegExp.prototype.test)
RegExpTest(re, text) ==
    IF Contains(re.flags, <<"i">>)
    THEN Contains(Lower(text), Lower(re.source))
    ELSE Contains(text, re.source)

-----------------------------------------------------------------------------
(* Failures raised by the HTTP client (AxiosError) *)

\* The messages and details a provider error body carries in the model
Messages ==
    { <<"Internal error">>,
      <<"API key not valid", ". Please ", "pass a valid API", " key.">>,
      <<"/", "API key not valid", "/", "i">>,
      <<"/", "GenerateContentRequestsPerMinutePerProjectPerRegion", "/", "i">> }

Details ==
    { <<>>,
      <<"{", "\"quota_limit_value\":\"0\"", "}">> }

\* response.data: hasError is whether data.error exists; code = 0 and
\* status = "" stand for a missing (falsy) member
NotEnvelope ==
    [hasError |-> FALSE, code |-> 0, message |-> <<>>, status |-> "", details |-> <<>>]

Envelopes(httpStatus) ==
    [hasError : {TRUE}, code : {0, httpStatus}, message : Messages,
     status : {"", "ERR"}, details : Details]

Bodies(httpStatus) == {NotEnvelope} \cup Envelopes(httpStatus)

Statuses == {200, 201, 400, 401, 403, 429, 500}

NoResponse == [hasResponse |-> FALSE, status |-> 0, data |-> NotEnvelope]

NoError == [hasResponse |-> FALSE, status |-> -1, data |-> NotEnvelope]

ResponseErrors(statuses) ==
    UNION { [hasResponse : {TRUE}, status : {s}, data : Bodies(s)] : s \in statuses }

\* type GoogleAIError: the provider error envelope {error: {code, message, status, details}}
GoogleAIError(data) == data.hasError /\ data.code # 0 /\ data.status # ""

\* JSON.stringify(error.response.data.error); a missing member is left out
JSONStringify(e) ==
    <<"{">>
    \o (IF e.code # 0 THEN <<"\"code\":", ToString(e.code), ",">> ELSE <<>>)
    \o <<"\"message\":\"">> \o e.message \o <<"\"">>
    \o (IF e.status # "" THEN <<",\"status\":\"", e.status, "\"">> ELSE <<>>)
    \o <<",\"details\":[">> \o e.details \o <<"]}">>

\* errorIsGoogleAIError: data?.error?.code || data?.error?.status
errorIsGoogleAIError(error) ==
    error.hasResponse /\ error.data.hasError
    /\ (error.data.code # 0 \/ error.data.status # "")

-----------------------------------------------------------------------------
(* handleAxiosError *)

keyDeadMsgs400 ==
    << Re(<<"please enable billing">>, <<"i">>),
       Re(<<"API key not valid">>, <<"i">>),
       Re(<<"API key expired">>, <<"i">>),
       Re(<<"pass a valid API">>, <<"i">>) >>

keyDeadMsgs429 ==
    << Re(<<"GenerateContentRequestsPerMinutePerProjectPerRegion">>, <<"i">>),
       Re(<<"\"quota_limit_value\":\"0\"">>, <<"i">>) >>

Call(hash, patch) == [hash |-> hash, patch |-> patch]

Disable_revokeOnly(hash) ==
    [updates |-> << Call(hash, [isRevoked |-> TRUE]) >>,
     logs |-> <<"warn">>]
Disable(hash) ==
    [updates |-> << Call(hash, [isDisabled |-> TRUE, isRevoked |-> TRUE]) >>,
     logs |-> <<"warn">>]

\* the rate-limit branch of case 429
RateLimited(hash, t) ==
    [updates |-> << Call(hash, [lastChecked |-> t - (KEY_CHECK_PERIOD - 60 * 1000)]) >>,
     logs |-> <<"warn">>]

\* after the switch: unexpected status
Unexpected_reenables(hash, t) ==
    [updates |-> << Call(hash, [lastChecked |-> t, isDisabled |-> FALSE, isRevoked |-> FALSE]) >>,
     logs |-> <<"error">>]
Unexpected(hash, t) ==
    [updates |-> << Call(hash, [lastChecked |-> t]) >>,
     logs |-> <<"error">>]

\* after the if: network error
oneMinute_named == 60 * 1000
oneMinute == 10 * 1000

NetworkError(hash, t) ==
    [updates |-> << Call(hash, [lastChecked |-> t - (KEY_CHECK_PERIOD - oneMinute)]) >>,
     logs |-> <<"error">>]

\* handleAxiosError(key, error) at time t: the update calls and log entries it makes
handleAxiosError(hash, error, t) ==
    IF error.hasResponse /\ errorIsGoogleAIError(error)
    THEN LET httpStatus == error.status
             text == JSONStringify(error.data)
         IN  CASE httpStatus = 400 ->
                    IF StringMatch(text, Join(keyDeadMsgs400, "|"))
                    THEN Disable(hash)
                    ELSE Unexpected(hash, t)
               [] httpStatus \in {401, 403} -> Disable(hash)
               [] httpStatus = 429 ->
                    IF StringMatch(text, Join(keyDeadMsgs429, "|"))
                    THEN Disable(hash)
                    ELSE RateLimited(hash, t)
               [] OTHER -> Unexpected(hash, t)
    ELSE NetworkError(hash, t)

-----------------------------------------------------------------------------
(* The pool *)

\* update(hash, patch): the given subset of the record's fields is applied
ApplyPatch(key, patch) ==
    [f \in DOMAIN key |-> IF f \in DOMAIN patch THEN patch[f] ELSE key[f]]

RECURSIVE ApplyCalls(_, _)
ApplyCalls(pool, calls) ==
    IF calls = <<>> THEN pool
    ELSE LET c == Head(calls)
         IN  ApplyCalls([pool EXCEPT ![c.hash] = ApplyPatch(@, c.patch)], Tail(calls))

\* Model names a listing may return, and their capability family
ModelNames == {"models/gemini-1.0-pro", "models/gemini-1.5-pro-latest", "models/gemini-1.5-flash"}

getGoogleAIModelFamily(name) ==
    IF name = "models/gemini-1.5-flash" THEN "gemini-flash" ELSE "gemini-pro"

Listings ==
    { <<"models/gemini-1.0-pro", "models/gemini-1.5-pro-latest", "models/gemini-1.5-flash">> }

\* Array.from(new Set(...)) over the listing, in insertion order
RECURSIVE Distinct(_, _)
Distinct(s, acc) ==
    IF s = <<>> THEN acc
    ELSE IF \E i \in 1..Len(acc) : acc[i] = Head(s)
         THEN Distinct(Tail(s), acc)
         ELSE Distinct(Tail(s), Append(acc, Head(s)))

Families(models) ==
    Distinct([i \in 1..Len(models) |-> getGoogleAIModelFamily(models[i])], <<>>)

Ids(models) == Distinct(models, <<>>)

-----------------------------------------------------------------------------
(* The HTTP client *)

\* axios default validateStatus, used by the listing GET
DefaultValidateStatus(status) == status >= 200 /\ status < 300

\* validateStatus of the smoke-test POST
validateStatus(status) == status = 200

\* How long a call takes to answer, and to time out
ResponseTime == 200
TimeoutTime == 4000

Elapsed(error) == IF error.hasResponse THEN ResponseTime ELSE TimeoutTime

-----------------------------------------------------------------------------
(* The scheduler *)

StartTime == KEY_CHECK_PERIOD + 1000

NewKey(lastChecked) ==
    [isDisabled |-> FALSE, isRevoked |-> FALSE, lastChecked |-> lastChecked,
     modelFamilies |-> <<>>, modelIds |-> <<>>]

\* lastChecked of a key when the checker starts: never checked, checked so
\* that it falls due five seconds after the start, or checked a second ago
InitialLastChecked == {0, StartTime - KEY_CHECK_PERIOD + 5000, StartTime - 1000}

IsEnabled(k) == ~keys[k].isDisabled
DueTime(k) == keys[k].lastChecked + keyCheckPeriod
Due(k) == now >= DueTime(k)

\* the single most-overdue key: now - (lastChecked + recheckPeriod) largest
\* and non-negative
MostOverdue(k) ==
    /\ IsEnabled(k)
    /\ Due(k)
    /\ \A j \in Hashes : (IsEnabled(j) /\ Due(j)) => DueTime(k) <= DueTime(j)

Min(S) == CHOOSE x \in S : \A y \in S : x <= y

WakeAt == IF lastEnd = -1 THEN StartTime ELSE lastEnd + minCheckInterval

NextWake == Max(WakeAt, Min({DueTime(k) : k \in {j \in Hashes : IsEnabled(j)}}))

Init ==
    /\ keys \in [Hashes -> {NewKey(t) : t \in InitialLastChecked}]
    /\ keys[1].lastChecked = 0
    /\ now = StartTime
    /\ pc = "idle"
    /\ cur = 0
    /\ lastEnd = -1
    /\ lastStart = -1
    /\ nChecks = 0
    /\ updates = <<>>
    /\ logs = <<>>
    /\ lastError = NoError
    /\ outcome = "none"
    /\ discovered = <<>>
    /\ errUpdates = <<>>
    /\ gap = -1
    /\ streams = <<>>
    /\ fed = <<>>
    /\ out = <<>>
    /\ aborted = <<>>
    /\ tnow = 0

\* the scheduler starts the check of the most-overdue key: testKeyOrFail(key)
Pick(k) ==
    /\ pc = "idle"
    /\ nChecks < MaxChecks
    /\ now >= WakeAt
    /\ MostOverdue(k)
    /\ pc' = "listing"
    /\ cur' = k
    /\ nChecks' = nChecks + 1
    /\ lastStart' = now
    /\ gap' = IF lastStart = -1 THEN -1 ELSE now - lastStart
    /\ UNCHANGED tvars /\ UNCHANGED <<keys, now, lastEnd, errUpdates, updates, logs, lastError, outcome, discovered>>

\* no key can be checked now: sleep until the soonest one can
Sleep ==
    /\ pc = "idle"
    /\ nChecks < MaxChecks
    /\ \E k \in Hashes : IsEnabled(k)
    /\ NextWake > now
    /\ now' = NextWake
    /\ UNCHANGED tvars /\ UNCHANGED <<keys, pc, cur, lastEnd, lastStart, nChecks, updates, logs,
                   lastError, outcome, discovered, errUpdates, gap>>

\* getProvisionedModels: the listing answers; the capability patch is issued
ListModelsOk_patchLater(models) ==
    /\ pc = "listing"
    /\ discovered' = Families(models)
    /\ now' = now + ResponseTime
    /\ pc' = "generating"
    /\ UNCHANGED tvars /\ UNCHANGED <<keys, updates, cur, lastEnd, lastStart, nChecks, logs, lastError,
                   outcome, errUpdates, gap>>
ListModelsOk(models) ==
    /\ pc = "listing"
    /\ LET call == Call(cur, [modelFamilies |-> Families(models), modelIds |-> Ids(models)])
       IN  /\ updates' = Append(updates, call)
           /\ keys' = ApplyCalls(keys, <<call>>)
    /\ discovered' = Families(models)
    /\ now' = now + ResponseTime
    /\ pc' = "generating"
    /\ UNCHANGED tvars /\ UNCHANGED <<cur, lastEnd, lastStart, nChecks, logs, lastError, outcome, errUpdates, gap>>

\* the failure of either call reaches handleAxiosError
Fail(error) ==
    LET t == now + Elapsed(error)
        h == handleAxiosError(cur, error, t)
    IN  /\ now' = t
        /\ lastError' = error
        /\ updates' = updates \o h.updates
        /\ logs' = logs \o h.logs
        /\ keys' = ApplyCalls(keys, h.updates)
        /\ errUpdates' = h.updates
        /\ outcome' = "failed"
        /\ lastEnd' = t
        /\ pc' = "done"
        /\ UNCHANGED tvars /\ UNCHANGED <<cur, lastStart, nChecks, discovered, gap>>

ListModelsFails(error) ==
    /\ pc = "listing"
    /\ error.hasResponse => ~DefaultValidateStatus(error.status)
    /\ Fail(error)

\* testGenerateContent rejects
GenerateFails(error) ==
    /\ pc = "generating"
    /\ error.hasResponse => ~validateStatus(error.status)
    /\ Fail(error)

\* testGenerateContent resolves; testKeyOrFail issues its final update
GenerateOk(status) ==
    /\ pc = "generating"
    /\ validateStatus(status)
    /\ LET call == Call(cur, [modelFamilies |-> discovered])
       IN  /\ updates' = Append(updates, call)
           /\ keys' = ApplyCalls(keys, <<call>>)
    /\ logs' = Append(logs, "info")
    /\ now' = now + ResponseTime
    /\ outcome' = "success"
    /\ lastEnd' = now + ResponseTime
    /\ pc' = "done"
    /\ UNCHANGED tvars /\ UNCHANGED <<cur, lastStart, nChecks, lastError, discovered, errUpdates, gap>>

\* the check is over: back to the top of the loop, which sleeps at least
\* minCheckInterval before it considers the next key
Loop ==
    /\ pc = "done"
    /\ pc' = "idle"
    /\ errUpdates' = <<>>
    /\ updates' = <<>>
    /\ logs' = <<>>
    /\ lastError' = NoError
    /\ outcome' = "none"
    /\ discovered' = <<>>
    /\ UNCHANGED tvars /\ UNCHANGED <<keys, now, cur, lastEnd, lastStart, nChecks, gap>>

Next ==
    \/ \E k \in Hashes : Pick(k)
    \/ Sleep
    \/ \E m \in Listings : ListModelsOk(m)
    \/ \E e \in ResponseErrors(Statuses) \cup {NoResponse} : ListModelsFails(e)
    \/ \E e \in ResponseErrors(Statuses) \cup {NoResponse} : GenerateFails(e)
    \/ \E s \in Statuses : GenerateOk(s)
    \/ Loop

Spec == Init /\ [][Next]_vars

-----------------------------------------------------------------------------
(* Properties of handleAxiosError *)

\* handleAxiosError has just acted on lastError, at time now, for key cur
Handled == pc = "done" /\ outcome = "failed"

DisableCall == Call(cur, [isDisabled |-> TRUE, isRevoked |-> TRUE])

\* the one update reschedules the key so that it is next due delay after now
Rescheduled(delay) ==
    /\ Len(errUpdates) = 1
    /\ errUpdates[1].hash = cur
    /\ DOMAIN errUpdates[1].patch = {"lastChecked"}
    /\ errUpdates[1].patch.lastChecked + KEY_CHECK_PERIOD = now + delay

\* no update of the handler touches isDisabled or isRevoked, and the key is
\* still enabled
StaysEnabled ==
    /\ \A i \in 1..Len(errUpdates) :
            DOMAIN errUpdates[i].patch \cap {"isDisabled", "isRevoked"} = {}
    /\ ~keys[cur].isDisabled
    /\ ~keys[cur].isRevoked

\* the serialized envelope contains a zero-quota text
HasZeroQuotaText(data) ==
    /\ data.hasError
    /\ \/ Contains(JSONStringify(data), <<"\"quota_limit_value\":\"0\"">>)
       \/ Contains(JSONStringify(data),
                   <<"GenerateContentRequestsPerMinutePerProjectPerRegion">>)

\* the serialized envelope contains a dead-key text, in any letter case
HasDeadKeyText(data) ==
    /\ data.hasError
    /\ \E i \in 1..Len(keyDeadMsgs400) :
            RegExpTest(keyDeadMsgs400[i], JSONStringify(data))

\* C1: a 429 whose provider error envelope contains "quota_limit_value":"0"
\* or the per-minute-per-project quota name makes handleAxiosError issue the
\* update {isDisabled: true, isRevoked: true}, not the rate-limit reschedule.
C1_ZeroQuotaDisables ==
    ( /\ Handled
      /\ lastError.hasResponse
      /\ lastError.status = 429
      /\ GoogleAIError(lastError.data)
      /\ HasZeroQuotaText(lastError.data) )
    => errUpdates = <<DisableCall>>

\* C2: a 400 whose provider error envelope contains one of the dead-key
\* texts, in any letter case, makes handleAxiosError issue the update
\* {isDisabled: true, isRevoked: true}; the key is not rescheduled as an
\* unexpected-status key.
C2_DeadKey400Disables ==
    ( /\ Handled
      /\ lastError.hasResponse
      /\ lastError.status = 400
      /\ GoogleAIError(lastError.data)
      /\ HasDeadKeyText(lastError.data) )
    => errUpdates = <<DisableCall>>

\* C3: a failure that carries a response with status 401 or 403, whatever
\* its body, makes handleAxiosError issue the update
\* {isDisabled: true, isRevoked: true}; it is never handled as a network error.
C3_AuthStatusDisables ==
    ( /\ Handled
      /\ lastError.hasResponse
      /\ lastError.status \in {401, 403} )
    => /\ errUpdates = <<DisableCall>>
       /\ errUpdates # NetworkError(cur, now).updates

\* C4: a 429 that matches no zero-quota pattern leaves the key enabled and
\* writes a lastChecked with lastChecked + recheckPeriod = now + 60 seconds.
C4_RateLimitedIn60s ==
    ( /\ Handled
      /\ lastError.hasResponse
      /\ lastError.status = 429
      /\ ~HasZeroQuotaText(lastError.data) )
    => /\ StaysEnabled
       /\ Rescheduled(60 * 1000)

C6_UnexpectedStatusFullPeriod ==
    ( /\ Handled
      /\ lastError.hasResponse
      /\ lastError.status \notin {401, 403, 429}
      /\ ~(lastError.status = 400 /\ HasDeadKeyText(lastError.data)) )
    => /\ StaysEnabled
       /\ errUpdates = << Call(cur, [lastChecked |-> now]) >>
       /\ ~Rescheduled(10 * 1000)

-----------------------------------------------------------------------------
(* Properties of testKeyOrFail and of the scheduler *)

\* C7: when testKeyOrFail completes successfully, the updates it has issued
\* for the key set modelFamilies to the discovered family set and
\* lastChecked to the current time (a time within the check just made).
C7_SuccessRefreshesLastChecked ==
    (pc = "done" /\ outcome = "success")
    => /\ \E i \in 1..Len(updates) :
            /\ updates[i].hash = cur
            /\ "modelFamilies" \in DOMAIN updates[i].patch
            /\ updates[i].patch.modelFamilies = discovered
       /\ \E i \in 1..Len(updates) :
            /\ updates[i].hash = cur
            /\ "lastChecked" \in DOMAIN updates[i].patch
            /\ updates[i].patch.lastChecked >= lastStart
            /\ updates[i].patch.lastChecked <= now

\* C8: no outcome of a key's check leaves that key the most-overdue key of
\* the pool: when a check is over and the pool holds another enabled key,
\* the checked key is disabled or is not due ahead of every other enabled
\* key, so the scheduler's next picks reach the others.
C8_CheckedKeyLeavesTheFront ==
    (pc = "done" /\ \E j \in Hashes \ {cur} : IsEnabled(j))
    => ~( /\ IsEnabled(cur)
          /\ Due(cur)
          /\ \A j \in Hashes \ {cur} : IsEnabled(j) => DueTime(cur) < DueTime(j) )

\* C9: testKeyOrFail is started for a key only when
\* now >= lastChecked + recheckPeriod; a key whose due time has not arrived
\* is not probed.
C9_ProbedOnlyWhenDue ==
    pc = "listing" => now >= keys[cur].lastChecked + KEY_CHECK_PERIOD

\* a check is started while another enabled key, rescheduled by an earlier
\* check, is not yet due and is left alone
C9_Witness ==
    /\ pc = "listing"
    /\ nChecks = 2
    /\ \E j \in Hashes \ {cur} :
            /\ IsEnabled(j)
            /\ keys[j].lastChecked \notin InitialLastChecked
            /\ now < keys[j].lastChecked + KEY_CHECK_PERIOD

\* C10: at most one check is in flight: a check starts only after the
\* previous check and its handling have completed, and at least
\* minCheckInterval (3 seconds) after the previous check started.
C10_OneCheckAtATime ==
    pc \in {"listing", "generating"}
    => \/ gap = -1 /\ lastEnd = -1
       \/ /\ gap >= 3 * 1000
          /\ lastEnd # -1
          /\ lastEnd <= lastStart

\* the second check starts as soon as the minimum sleep after the first is over
C10_Witness ==
    /\ pc = "listing"
    /\ gap # -1
    /\ lastStart = lastEnd + MIN_CHECK_INTERVAL

-----------------------------------------------------------------------------
(* Properties of the key records and of the patches *)

Patch(i) == updates[i].patch

\* C11: for every key record isRevoked implies isDisabled; every update the
\* checker issues that sets isRevoked = true also sets isDisabled = true in
\* the same patch, and no update changes the key's hash.
C11_RevokedImpliesDisabled ==
    /\ \A k \in Hashes : keys[k].isRevoked => keys[k].isDisabled
    /\ \A i \in 1..Len(updates) :
         /\ ("isRevoked" \in DOMAIN Patch(i) /\ Patch(i).isRevoked)
                => ("isDisabled" \in DOMAIN Patch(i) /\ Patch(i).isDisabled)
         /\ "hash" \notin DOMAIN Patch(i)
         /\ updates[i].hash = cur
    /\ DOMAIN keys = Hashes

C11_Witness ==
    /\ Handled
    /\ keys[cur].isRevoked
    /\ nChecks = 2
    /\ \E k \in Hashes \ {cur} : keys[k].isRevoked

\* the smoke test has failed after the listing succeeded
SmokeTestFailed == Handled /\ updates # errUpdates

\* C16: the capability patch precedes the smoke test: while the inference
\* call is in flight the one update issued carries the discovered
\* modelFamilies and modelIds and the key record holds them; when the smoke
\* test then fails the record still holds both and handleAxiosError's update
\* does not write them.
C16_CapabilityPatchFirst ==
    /\ pc = "generating" =>
         /\ Len(updates) = 1
         /\ updates[1].hash = cur
         /\ DOMAIN Patch(1) = {"modelFamilies", "modelIds"}
         /\ \E m \in Listings :
                /\ Patch(1).modelFamilies = Families(m)
                /\ Patch(1).modelIds = Ids(m)
         /\ Patch(1).modelFamilies = discovered
         /\ keys[cur].modelFamilies = Patch(1).modelFamilies
         /\ keys[cur].modelIds = Patch(1).modelIds
    /\ SmokeTestFailed =>
         /\ Len(updates) = 2
         /\ DOMAIN Patch(1) = {"modelFamilies", "modelIds"}
         /\ keys[cur].modelFamilies = Patch(1).modelFamilies
         /\ keys[cur].modelIds = Patch(1).modelIds
         /\ keys[cur].modelIds # <<>>
         /\ DOMAIN Patch(2) \cap {"modelFamilies", "modelIds"} = {}

C16_Witness ==
    /\ SmokeTestFailed
    /\ lastError.hasResponse
    /\ lastError.status = 500
    /\ keys[cur].modelFamilies = <<"gemini-pro", "gemini-flash">>

\* What the status policy table (spec 4.2) asks of a failure with a response
PolicyTable(hash, error, t) ==
    CASE error.status = 400 /\ HasDeadKeyText(error.data) -> Disable(hash).updates
      [] error.status \in {401, 403} -> Disable(hash).updates
      [] error.status = 429 /\ HasZeroQuotaText(error.data) -> Disable(hash).updates
      [] error.status = 429 -> RateLimited(hash, t).updates
      [] OTHER -> Unexpected(hash, t).updates

\* C17: the smoke test passes only on exactly HTTP 200: for every other
\* response status, other 2xx statuses included, testKeyOrFail fails with
\* the response, its final success update is not issued, and the failure is
\* classified by handleAxiosError according to the status policy table.
C17_Only200Passes ==
    (pc = "done" /\ Len(updates) > 1 /\ lastError.hasResponse)
    => /\ outcome = "failed"
       /\ lastError.status # 200
       /\ \A i \in 2..Len(updates) : DOMAIN Patch(i) # {"modelFamilies"}
       /\ errUpdates = PolicyTable(cur, lastError, now)

\* C19: disabling is terminal: no update the checker issues sets isDisabled
\* or isRevoked to false, a key that is disabled and revoked stays so
\* through every later step, and no key record is removed.
C19_DisablingIsTerminal ==
    /\ [](\A i \in 1..Len(updates) :
            /\ "isDisabled" \in DOMAIN Patch(i) => Patch(i).isDisabled
            /\ "isRevoked" \in DOMAIN Patch(i) => Patch(i).isRevoked)
    /\ [][ /\ DOMAIN keys' = DOMAIN keys
           /\ \A k \in Hashes :
                (keys[k].isDisabled /\ keys[k].isRevoked)
                    => (keys'[k].isDisabled /\ keys'[k].isRevoked) ]_vars

\* a check of the other key has run to its end after a key was disabled and
\* revoked
C19_Witness ==
    /\ pc = "done"
    /\ nChecks = 2
    /\ outcome = "failed"
    /\ lastError.status = 500
    /\ \E k \in Hashes \ {cur} : keys[k].isDisabled /\ keys[k].isRevoked

\* a failure the policy table makes permanent (disable and revoke)
Permanent(error) ==
    /\ error.hasResponse
    /\ PolicyTable(cur, error, now) = Disable(cur).updates

\* C20: every invocation of handleAxiosError issues exactly one update,
\* addressed to the failing key's hash, and the patch touches only the fields
\* of its policy: a permanent failure writes only isDisabled and isRevoked,
\* a transient or unexpected failure writes only lastChecked.
C20_PatchFollowsPolicy ==
    Handled =>
        /\ Len(errUpdates) = 1
        /\ errUpdates[1].hash = cur
        /\ Permanent(lastError)
                => DOMAIN errUpdates[1].patch = {"isDisabled", "isRevoked"}
        /\ ~Permanent(lastError)
                => DOMAIN errUpdates[1].patch = {"lastChecked"}

\* The frame of handleAxiosError, whichever policy it applies: one update,
\* to the failing key, that is exactly {isDisabled, isRevoked} or exactly
\* {lastChecked}; modelFamilies, modelIds and every other key's record are
\* left as they were.
FrameOfHandleAxiosError ==
    /\ [](Handled =>
            /\ Len(errUpdates) = 1
            /\ errUpdates[1].hash = cur
            /\ \/ errUpdates[1].patch = [isDisabled |-> TRUE, isRevoked |-> TRUE]
               \/ DOMAIN errUpdates[1].patch = {"lastChecked"})
    /\ [][ (pc # "done" /\ pc' = "done" /\ outcome' = "failed")
            => /\ \A k \in Hashes \ {cur} : keys'[k] = keys[k]
               /\ keys'[cur].modelFamilies = keys[cur].modelFamilies
               /\ keys'[cur].modelIds = keys[cur].modelIds ]_vars

-----------------------------------------------------------------------------
(* JSON texts and JavaScript values (the streaming transcoder) *)

\* A JSON text is a sequence of tokens; the text of a token is a fragment sequence
Tok(k, v) == [k |-> k, v |-> v]
P(x) == Tok("p", <<x>>)
S(frags) == Tok("str", frags)
N(digits) == Tok("num", <<digits>>)
NullTok == Tok("null", <<"null">>)
Junk(x) == Tok("junk", <<x>>)

IsP(tok, x) == tok.k = "p" /\ tok.v = <<x>>

\* A JavaScript value: undefined, null, a string, a number, an array, an object
Val(t, v) == [t |-> t, v |-> v]
Undefined == Val("undef", <<>>)
Null == Val("null", <<>>)
Str(frags) == Val("str", frags)
Num(digits) == Val("num", digits)
Arr(elems) == Val("arr", elems)
Obj(members) == Val("obj", members)
Member(key, val) == [key |-> key, val |-> val]

SyntaxError == [ok |-> FALSE, val |-> Undefined, rest |-> <<>>]
Parsed(val, rest) == [ok |-> TRUE, val |-> val, rest |-> rest]

\* JSON.parse: recursive descent over the tokens
RECURSIVE ParseValue(_), ParseElements(_, _), ParseMembers(_, _)

ParseValue(toks) ==
    IF toks = <<>> THEN SyntaxError
    ELSE LET h == Head(toks)
         IN  CASE h.k = "str" -> Parsed(Str(h.v), Tail(toks))
               [] h.k = "num" -> Parsed(Num(h.v), Tail(toks))
               [] h.k = "null" -> Parsed(Null, Tail(toks))
               [] IsP(h, "[") ->
                    IF Len(toks) > 1 /\ IsP(toks[2], "]")
                    THEN Parsed(Arr(<<>>), Tail(Tail(toks)))
                    ELSE ParseElements(Tail(toks), <<>>)
               [] IsP(h, "{") ->
                    IF Len(toks) > 1 /\ IsP(toks[2], "}")
                    THEN Parsed(Obj(<<>>), Tail(Tail(toks)))
                    ELSE ParseMembers(Tail(toks), <<>>)
               [] OTHER -> SyntaxError

\* the elements of an array, from the token after "[" or ","
ParseElements(toks, acc) ==
    LET r == ParseValue(toks)
    IN  IF ~r.ok \/ r.rest = <<>> THEN SyntaxError
        ELSE IF IsP(Head(r.rest), ",")
             THEN ParseElements(Tail(r.rest), Append(acc, r.val))
        ELSE IF IsP(Head(r.rest), "]")
             THEN Parsed(Arr(Append(acc, r.val)), Tail(r.rest))
        ELSE SyntaxError

\* the members of an object, from the token after "{" or ","
ParseMembers(toks, acc) ==
    IF Len(toks) < 3 \/ toks[1].k # "str" \/ ~IsP(toks[2], ":") THEN SyntaxError
    ELSE LET r == ParseValue(Tail(Tail(toks)))
         IN  IF ~r.ok \/ r.rest = <<>> THEN SyntaxError
             ELSE IF IsP(Head(r.rest), ",")
                  THEN ParseMembers(Tail(r.rest), Append(acc, Member(toks[1].v, r.val)))
             ELSE IF IsP(Head(r.rest), "}")
                  THEN Parsed(Obj(Append(acc, Member(toks[1].v, r.val))), Tail(r.rest))
             ELSE SyntaxError

\* JSON.parse(text): ok is FALSE where it throws SyntaxError
JSONParse(toks) ==
    LET r == ParseValue(toks)
    IN  IF r.ok /\ r.rest = <<>> THEN r ELSE SyntaxError

\* value.key: the property of an object (the last member of that name);
\* undefined on any other non-nullish value
Get(v, key) ==
    IF v.t = "obj" /\ \E i \in 1..Len(v.v) : v.v[i].key = <<key>>
    THEN v.v[CHOOSE i \in 1..Len(v.v) :
                /\ v.v[i].key = <<key>>
                /\ \A j \in (i + 1)..Len(v.v) : v.v[j].key # <<key>>].val
    ELSE Undefined

IsNullish(v) == v.t \in {"undef", "null"}

\* truthiness, as || reads it
Truthy(v) ==
    CASE v.t \in {"undef", "null"} -> FALSE
      [] v.t = "str" -> v.v # <<>>
      [] v.t = "num" -> v.v # <<"0">>
      [] OTHER -> TRUE

\* JSON.stringify(value) inside a template literal, as text fragments
RECURSIVE Stringify(_), StringifyAll(_, _)
Stringify(v) ==
    CASE v.t = "undef" -> <<"undefined">>
      [] v.t = "null" -> <<"null">>
      [] v.t = "str" -> <<"\"">> \o v.v \o <<"\"">>
      [] v.t = "num" -> v.v
      [] v.t = "arr" -> <<"[">> \o StringifyAll(v.v, FALSE) \o <<"]">>
      [] v.t = "obj" -> <<"{">> \o StringifyAll(v.v, TRUE) \o <<"}">>

StringifyAll(items, members) ==
    IF items = <<>> THEN <<>>
    ELSE LET h == Head(items)
             one == IF members
                    THEN <<"\"">> \o h.key \o <<"\"", ":">> \o Stringify(h.val)
                    ELSE Stringify(h)
         IN  IF Len(items) = 1 THEN one
             ELSE one \o <<",">> \o StringifyAll(Tail(items), members)

\* value.length: the element count of an array or string, the member of an object
LengthOf(v) ==
    CASE v.t \in {"arr", "str"} -> Num(<<ToString(Len(v.v))>>)
      [] v.t = "obj" -> Get(v, "length")
      [] OTHER -> Undefined

\* value > 0 (the numbers of the model are not negative)
GreaterThanZero(v) == v.t = "num" /\ v.v # <<"0">>

\* value[0]: the first element, the first character, the member named "0"
Index0(v) ==
    CASE v.t = "arr" /\ v.v # <<>> -> v.v[1]
      [] v.t = "str" /\ v.v # <<>> -> Str(<<v.v[1]>>)
      [] v.t = "obj" -> Get(v, "0")
      [] OTHER -> Undefined

\* value?.key
OptGet(v, key) == IF IsNullish(v) THEN Undefined ELSE Get(v, key)

-----------------------------------------------------------------------------
(* The streaming transcoder: googleAIToOpenAI *)

\* Whitespace stands alone in a text (" ", "\n") or ends the fragment ": "
WhiteSpace == {" ", "\n"}

RECURSIVE TrimStart(_), TrimEnd(_)
TrimStart(text) ==
    IF text # <<>> /\ Head(text) \in WhiteSpace THEN TrimStart(Tail(text)) ELSE text

TrimEnd(text) ==
    IF text = <<>> THEN text
    ELSE LET n == Len(text)
         IN  IF text[n] \in WhiteSpace THEN TrimEnd(SubSeq(text, 1, n - 1))
             ELSE IF text[n] = ": " THEN SubSeq(text, 1, n - 1) \o <<":">>
             ELSE text

\* String.prototype.trim
Trim(text) == TrimEnd(TrimStart(text))

\* mutant: the pattern taken greedily, /^(.*): /
StripSpeaker_greedy(text) ==
    LET ends == {p \in 1..Len(text) :
                    /\ text[p] = ": "
                    /\ \A q \in 1..(p - 1) : text[q] # "\n"}
    IN  IF ends = {} THEN text
        ELSE SubSeq(text, (CHOOSE p \in ends : \A q \in ends : q <= p) + 1, Len(text))

\* content.replace(/^(.*?): /, ""): the shortest run from the start of the text
\* that ends in ": " is removed; "." matches no line break, so a run across one
\* is no match
StripSpeaker(text) ==
    LET ends == {p \in 1..Len(text) :
                    /\ text[p] = ": "
                    /\ \A q \in 1..(p - 1) : text[q] # "\n"}
    IN  IF ends = {} THEN text
        ELSE SubSeq(text, (CHOOSE p \in ends : \A q \in ends : p <= q) + 1, Len(text))

\* A raw frame is a sequence of lines, each a field name and its value
Line(field, value) == [field |-> field, value |-> value]

RECURSIVE DataOf(_)
DataOf(lines) ==
    IF lines = <<>> THEN <<>>
    ELSE (IF Head(lines).field = "data" THEN Head(lines).value ELSE <<>>)
         \o DataOf(Tail(lines))

\* parseEvent(data): the frame's event type, and the values of its data lines
parseEvent(frame) ==
    [type |-> IF \E i \in 1..Len(frame) : frame[i].field = "event"
              THEN (CHOOSE l \in {frame[i] : i \in 1..Len(frame)} : l.field = "event").value
              ELSE <<>>,
     data |-> DataOf(frame)]

Sentinel == <<Junk("[DONE]")>>

\* mutant: only the empty payload ends the stream
IsEndOfStream_emptyOnly(rawEvent) == rawEvent.data = <<>>

\* !rawEvent.data || rawEvent.data === "[DONE]"
IsEndOfStream(rawEvent) == rawEvent.data = <<>> \/ rawEvent.data = Sentinel

Warn == [level |-> "warn", msg |-> "Received invalid event"]

\* asCompletion(event): the parsed payload, or null after log.warn when
\* JSON.parse throws, parsed.candidates throws (parsed is null) or
\* candidates?.length > 0 is false
asCompletion(event) ==
    LET r == JSONParse(event.data)
        candidates == Get(r.val, "candidates")
        usable == /\ r.ok
                  /\ r.val.t # "null"
                  /\ ~IsNullish(candidates)
                  /\ GreaterThanZero(LengthOf(candidates))
    IN  IF usable THEN [completion |-> r.val, logs |-> <<>>]
        ELSE [completion |-> Null, logs |-> <<Warn>>]

\* isSafetyStop(completion); candidates[0] is neither null nor undefined here
isSafetyStop(completion) ==
    LET candidate == Index0(Get(completion, "candidates"))
        finishReason == Get(candidate, "finishReason")
        parts == OptGet(OptGet(candidate, "content"), "parts")
        length == LengthOf(parts)
        stop == finishReason.t = "str" /\ finishReason.v \in {<<"SAFETY">>, <<"OTHER">>}
        hasNoContent == ~IsNullish(parts) /\ length.t = "num" /\ length.v = <<"0">>
    IN  stop /\ hasNoContent

\* the results of a call: an exception, the skip result, or an event
Threw(written) == [threw |-> TRUE, event |-> <<>>, logs |-> written]
Skip(written) == [threw |-> FALSE, event |-> <<>>, logs |-> written]
Emit(event, written) == [threw |-> FALSE, event |-> <<event>>, logs |-> written]

SafetyWarning == <<"[Proxy Warning] Gemini safety filter triggered", ": ">>

\* lines 37-44: the text of the first part, or the safety warning
ContentOf(completion) ==
    LET candidate == Index0(Get(completion, "candidates"))
        given == OptGet(OptGet(candidate, "content"), "parts")
        parts == IF Truthy(given) THEN given ELSE Arr(<<>>)
        text == OptGet(Index0(parts), "text")
    IN  IF isSafetyStop(completion)
        THEN Str(SafetyWarning \o Stringify(Get(candidate, "safetyRatings")))
        ELSE IF IsNullish(text) THEN Str(<<>>) ELSE text

\* mutant: the transcoder counts the frames itself, across all its callers
googleAIToOpenAI_ownIndex(params, t) ==
    LET rawEvent == parseEvent(params.data)
        parsed == asCompletion(rawEvent)
        completionEvent == parsed.completion
        candidate == Index0(Get(completionEvent, "candidates"))
        content == ContentOf(completionEvent)
        finishReason == Get(candidate, "finishReason")
        newEvent(c) ==
            [id |-> <<"goo-", params.fallbackId>>,
             object |-> "chat.completion.chunk",
             created |-> t,
             model |-> params.fallbackModel,
             content |-> c,
             finish_reason |-> IF IsNullish(finishReason) THEN Null ELSE finishReason]
    IN  IF IsEndOfStream(rawEvent) THEN Skip(<<>>)
        ELSE IF completionEvent.t = "null" THEN Skip(parsed.logs)
        ELSE IF IsNullish(candidate) THEN Threw(parsed.logs)
        ELSE IF t # 0 THEN Emit(newEvent(content), parsed.logs)
        ELSE IF content.t # "str" THEN Threw(parsed.logs)
        ELSE Emit(newEvent(Str(Trim(StripSpeaker(content.v)))), parsed.logs)

\* googleAIToOpenAI(params) called at time t.  candidates[0].content throws a
\* TypeError when candidates[0] is null or undefined; content.replace throws
\* one when the text is not a string
googleAIToOpenAI(params, t) ==
    LET rawEvent == parseEvent(params.data)
        parsed == asCompletion(rawEvent)
        completionEvent == parsed.completion
        candidate == Index0(Get(completionEvent, "candidates"))
        content == ContentOf(completionEvent)
        finishReason == Get(candidate, "finishReason")
        newEvent(c) ==
            [id |-> <<"goo-", params.fallbackId>>,
             object |-> "chat.completion.chunk",
             created |-> t,
             model |-> params.fallbackModel,
             content |-> c,
             finish_reason |-> IF IsNullish(finishReason) THEN Null ELSE finishReason]
    IN  IF IsEndOfStream(rawEvent) THEN Skip(<<>>)
        ELSE IF completionEvent.t = "null" THEN Skip(parsed.logs)
        ELSE IF IsNullish(candidate) THEN Threw(parsed.logs)
        ELSE IF params.index # 0 THEN Emit(newEvent(content), parsed.logs)
        ELSE IF content.t # "str" THEN Threw(parsed.logs)
        ELSE Emit(newEvent(Str(Trim(StripSpeaker(content.v)))), parsed.logs)

-----------------------------------------------------------------------------
(* Frames of the provider's stream (GoogleAIStreamEvent) *)

RECURSIVE SepBy(_)
SepBy(texts) ==
    IF texts = <<>> THEN <<>>
    ELSE IF Len(texts) = 1 THEN texts[1]
    ELSE texts[1] \o <<P(",")>> \o SepBy(Tail(texts))

KV(key, toks) == <<S(<<key>>), P(":")>> \o toks
ObjT(members) == <<P("{")>> \o SepBy(members) \o <<P("}")>>
ArrT(items) == <<P("[")>> \o SepBy(items) \o <<P("]")>>

TextPart(text) == ObjT(<<KV("text", <<S(text)>>)>>)
ContentT(parts) == KV("content", ObjT(<<KV("parts", ArrT(parts)), KV("role", <<S(<<"model">>)>>)>>))
FinishT(reason) == KV("finishReason", <<S(<<reason>>)>>)
IndexT == KV("index", <<N("0")>>)
RatingsT ==
    KV("safetyRatings",
       ArrT(<<ObjT(<<KV("category", <<S(<<"HARM_CATEGORY_HARASSMENT">>)>>),
                     KV("probability", <<S(<<"HIGH">>)>>)>>)>>))

\* a frame whose data line holds the given JSON text
Data(toks) == <<Line("data", toks)>>
\* a frame of one candidate with the given members
Event(members) == Data(ObjT(<<KV("candidates", ArrT(<<ObjT(members)>>))>>))
\* a frame of one candidate whose first part has the given text
TextEvent(text) == Event(<<ContentT(<<TextPart(text)>>), IndexT>>)

Hello == <<"Assistant", ": ", "Hello there">>
AfterLineBreak == <<"Sure", "\n", "Assistant", ": ", "Hi">>
TwoLabels == <<"Note", ": ", "a", ": ", "b">>
Padded == <<" ", "Hello", " ">>

Frames ==
    { <<Line("event", <<"ping">>), Line("data", <<>>)>>,
      Data(Sentinel),
      Data(<<P("{"), Junk("not json")>>),
      Data(<<NullTok>>),
      Data(ObjT(<<>>)),
      Data(ObjT(<<KV("candidates", ArrT(<<>>))>>)),
      Data(ObjT(<<KV("candidates", ArrT(<<<<NullTok>>>>))>>)),
      Data(ObjT(<<KV("candidates", ArrT(<<<<N("5")>>>>))>>)),
      TextEvent(Hello),
      TextEvent(AfterLineBreak),
      TextEvent(TwoLabels),
      Event(<<ContentT(<<TextPart(Padded)>>), FinishT("STOP"), IndexT>>),
      Event(<<ContentT(<<ObjT(<<>>)>>), IndexT>>),
      Event(<<ContentT(<<ObjT(<<KV("text", <<N("5")>>)>>)>>), IndexT>>),
      Event(<<ContentT(<<>>), FinishT("SAFETY"), IndexT, RatingsT>>),
      Event(<<FinishT("SAFETY"), IndexT, RatingsT>>),
      Event(<<KV("content", ObjT(<<>>)), FinishT("OTHER"), IndexT, RatingsT>>),
      Event(<<ContentT(<<>>), FinishT("STOP"), IndexT, RatingsT>>),
      Event(<<ContentT(<<TextPart(<<"x">>)>>), FinishT("SAFETY"), IndexT, RatingsT>>) }

-----------------------------------------------------------------------------
(* The callers of the transcoder: two concurrent streams *)

Streams == {1, 2}

\* the frames of the second stream, in arrival order
Script2 == <<TextEvent(Hello), TextEvent(Hello)>>

\* the frames that can arrive next on stream s
Arriving(s) ==
    IF s = 1 THEN (IF fed[s] < MaxFrames THEN Frames ELSE {})
    ELSE (IF fed[s] < Len(Script2) THEN {Script2[fed[s] + 1]} ELSE {})

\* the parameters of the call for the frame at position i of stream s
Params(s, frame, i) ==
    [data |-> frame,
     index |-> i,
     fallbackId |-> streams[s].fallbackId,
     fallbackModel |-> streams[s].fallbackModel]

InitT ==
    /\ keys = [h \in Hashes |-> NewKey(0)]
    /\ now = StartTime
    /\ pc = "idle"
    /\ cur = 0
    /\ lastEnd = -1
    /\ lastStart = -1
    /\ nChecks = 0
    /\ updates = <<>>
    /\ logs = <<>>
    /\ lastError = NoError
    /\ outcome = "none"
    /\ discovered = <<>>
    /\ errUpdates = <<>>
    /\ gap = -1
    /\ streams = [s \in Streams |->
                    [fallbackId |-> IF s = 1 THEN "req-1" ELSE "req-2",
                     fallbackModel |-> IF s = 1 THEN "gemini-pro" ELSE "gemini-1.5-pro",
                     frames |-> <<>>]]
    /\ fed = [s \in Streams |-> 0]
    /\ out = [s \in Streams |-> <<>>]
    /\ aborted = [s \in Streams |-> FALSE]
    /\ tnow = 0

\* the caller of stream s hands its next frame to the transcoder with its own
\* frame index; an exception ends the stream
Feed(s, frame) ==
    /\ ~aborted[s]
    /\ frame \in Arriving(s)
    /\ LET result == googleAIToOpenAI(Params(s, frame, fed[s]), tnow)
       IN  /\ out' = [out EXCEPT ![s] = Append(@, result)]
           /\ aborted' = [aborted EXCEPT ![s] = result.threw]
    /\ streams' = [streams EXCEPT ![s].frames = Append(@, frame)]
    /\ fed' = [fed EXCEPT ![s] = @ + 1]
    /\ tnow' = tnow + 1
    /\ UNCHANGED cvars

NextT == \E s \in Streams : \E frame \in Frames : Feed(s, frame)

SpecT == InitT /\ [][NextT]_vars

-----------------------------------------------------------------------------
(* Properties of the transcoder, under SpecT *)

\* the calls made so far: stream s, position i (frame index i - 1)
Calls == {c \in Streams \X (1..MaxFrames) : c[2] <= Len(out[c[1]])}
FrameOf(c) == streams[c[1]].frames[c[2]]
ResultOf(c) == out[c[1]][c[2]]
IndexOf(c) == c[2] - 1

\* what the frame holds: its payload, first candidate, first part and text
PayloadOf(frame) == JSONParse(parseEvent(frame).data)
CandidateOf(frame) == Index0(Get(PayloadOf(frame).val, "candidates"))
PartsOf(frame) == OptGet(OptGet(CandidateOf(frame), "content"), "parts")
TextOf(frame) == OptGet(Index0(PartsOf(frame)), "text")

IsEnd(frame) == parseEvent(frame).data \in {<<>>, Sentinel}

\* the payload is not JSON, or is JSON without a usable shape
Unusable(frame) ==
    /\ ~IsEnd(frame)
    /\ \/ ~PayloadOf(frame).ok
       \/ Get(PayloadOf(frame).val, "candidates").t # "arr"
       \/ Get(PayloadOf(frame).val, "candidates").v = <<>>
       \/ CandidateOf(frame).t # "obj"
       \/ /\ PartsOf(frame).t = "arr"
          /\ PartsOf(frame).v # <<>>
          /\ TextOf(frame).t # "str"

\* C12: the transcoder never throws and never logs at error level; a frame
\* whose payload is not valid JSON or has no usable shape (no candidates, an
\* empty candidate list, a null or non-object first candidate, a part whose text
\* is missing or not a string) yields the skip result after one warning
C12_NeverThrows ==
    \A c \in Calls :
        /\ ~ResultOf(c).threw
        /\ \A i \in 1..Len(ResultOf(c).logs) : ResultOf(c).logs[i].level # "error"
        /\ Unusable(FrameOf(c)) =>
              /\ ResultOf(c).event = <<>>
              /\ Len(ResultOf(c).logs) = 1
              /\ ResultOf(c).logs[1].level = "warn"

\* C13: a frame whose data is empty or "[DONE]" yields, at any index, the skip
\* result and no log entry at all
C13_EndOfStreamSkipsSilently ==
    \A c \in Calls :
        IsEnd(FrameOf(c)) =>
            /\ ~ResultOf(c).threw
            /\ ResultOf(c).event = <<>>
            /\ ResultOf(c).logs = <<>>

\* the sentinel and the empty payload have both arrived, the sentinel after
\* the first frame
C13_Witness ==
    /\ Len(out[1]) = 2
    /\ parseEvent(streams[1].frames[1]).data = <<>>
    /\ parseEvent(streams[1].frames[2]).data = Sentinel
    /\ out[1][2] = Skip(<<>>)

\* the first part of the first candidate has a text that holds ": "
HasLabel(frame) ==
    /\ PayloadOf(frame).ok
    /\ CandidateOf(frame).t = "obj"
    /\ TextOf(frame).t = "str"
    /\ \E p \in 1..Len(TextOf(frame).v) : TextOf(frame).v[p] = ": "

FirstColonSpace(text) ==
    CHOOSE p \in 1..Len(text) : text[p] = ": " /\ \A q \in 1..(p - 1) : text[q] # ": "
LabelOf(text) == SubSeq(text, 1, FirstColonSpace(text) - 1)
RestOf(text) == SubSeq(text, FirstColonSpace(text) + 1, Len(text))
HasLineBreak(text) == \E q \in 1..Len(text) : text[q] = "\n"

\* the delta.content of the event a call emitted
Emitted(c, content) ==
    /\ ~ResultOf(c).threw
    /\ ResultOf(c).event # <<>>
    /\ ResultOf(c).event[1].content.t = "str"
    /\ ResultOf(c).event[1].content.v = content

\* C14: for a text T = label + ": " + rest, the content emitted at index 0 is
\* rest trimmed, and at every index >= 1 it is T unchanged
C14_StripsAnyLabelAtIndexZero ==
    \A c \in Calls :
        HasLabel(FrameOf(c)) =>
            LET T == TextOf(FrameOf(c)).v
            IN  IF IndexOf(c) = 0 THEN Emitted(c, Trim(RestOf(T)))
                ELSE Emitted(c, T)

\* C14 (amended): at index 0 the content is rest trimmed when the label holds
\* no line break and T trimmed when it holds one; at every index >= 1 it is T
\* unchanged
C14_StripsLabelWithinLine ==
    \A c \in Calls :
        HasLabel(FrameOf(c)) =>
            LET T == TextOf(FrameOf(c)).v
            IN  IF IndexOf(c) >= 1 THEN Emitted(c, T)
                ELSE IF HasLineBreak(LabelOf(T)) THEN Emitted(c, Trim(T))
                ELSE Emitted(c, Trim(RestOf(T)))

\* "Assistant: Hello there" has arrived at index 0 and again at index 1
C14_Witness ==
    /\ Len(out[2]) = 2
    /\ TextOf(streams[2].frames[1]).v = Hello
    /\ TextOf(streams[2].frames[2]).v = Hello
    /\ Emitted(<<2, 1>>, <<"Hello there">>)
    /\ Emitted(<<2, 2>>, Hello)

IsStop(frame, reasons) ==
    /\ CandidateOf(frame).t = "obj"
    /\ Get(CandidateOf(frame), "finishReason").t = "str"
    /\ Get(CandidateOf(frame), "finishReason").v \in reasons

\* the candidate carries no content parts: an empty list, no parts, no content
NoParts(frame) ==
    \/ IsNullish(PartsOf(frame))
    \/ PartsOf(frame).t = "arr" /\ PartsOf(frame).v = <<>>

\* the text the transcoder extracts when it does not replace it
Extracted(c) ==
    LET text == TextOf(FrameOf(c))
        given == IF IsNullish(text) THEN <<>> ELSE text.v
    IN  IF IndexOf(c) = 0 THEN Trim(StripSpeaker(given)) ELSE given

\* C15: at every index, a first candidate with finish reason SAFETY or OTHER
\* and no content parts (an empty list, no parts, no content) gives a content
\* that is not empty and holds the JSON text of its safetyRatings; with any
\* other finish reason the extracted text is not replaced
C15_SafetyStopShowsRatings ==
    \A c \in Calls :
        /\ IsStop(FrameOf(c), {<<"SAFETY">>, <<"OTHER">>}) /\ NoParts(FrameOf(c)) =>
              /\ ~ResultOf(c).threw
              /\ ResultOf(c).event # <<>>
              /\ ResultOf(c).event[1].content.t = "str"
              /\ ResultOf(c).event[1].content.v # <<>>
              /\ Contains(ResultOf(c).event[1].content.v,
                          Stringify(Get(CandidateOf(FrameOf(c)), "safetyRatings")))
        /\ /\ CandidateOf(FrameOf(c)).t = "obj"
           /\ ~IsStop(FrameOf(c), {<<"SAFETY">>, <<"OTHER">>})
           /\ TextOf(FrameOf(c)).t \in {"str", "undef"}
           => Emitted(c, Extracted(c))

\* the results of stream s when its frames are fed alone, from time 0 on
Alone(s, i) == googleAIToOpenAI(Params(s, streams[s].frames[i], i - 1), i - 1)

\* a result, the created timestamp aside
Timeless(result) ==
    IF result.event = <<>> THEN result
    ELSE [result EXCEPT !.event = <<[@[1] EXCEPT !.created = 0]>>]

====
